---- MODULE Spec2Model ----
(***************************************************************************)
(* Model of src/src/main.cu: startup validation, the render/training loop  *)
(* with its reload trigger, and the flock based lock file shared with an   *)
(* external dataset mutator.                                               *)
(***************************************************************************)
EXTENDS Integers, Sequences, FiniteSets, TLC

\* ------------------------------------------------------------------ bounds
GraphSize == 3          \* size of testbed.m_loss_graph
ExtraSteps == 2         \* engine steps available beyond GraphSize
MaxWrites == 1          \* dataset versions the mutator may write
MaxLoss == 2            \* loss samples are drawn from 0..MaxLoss
MaxCalls == 5           \* calls made by a client of the lock functions

MaxSteps == GraphSize + ExtraSteps
Losses == 0..MaxLoss

\* the first descriptor open() hands out (0, 1, 2 are the standard streams)
FirstFd == 3
\* stdev < 0.10f, kept as the fraction ThresholdNum / ThresholdDen
ThresholdNum == 1
ThresholdDen == 10

\* strings are sequences of characters
UpperCase == <<"A", "B", "C", "D", "E", "F", "G", "H", "I", "J", "K", "L",
               "M", "N", "O", "P", "Q", "R", "S", "T", "U", "V", "W", "X",
               "Y", "Z">>
LowerCase == <<"a", "b", "c", "d", "e", "f", "g", "h", "i", "j", "k", "l",
               "m", "n", "o", "p", "q", "r", "s", "t", "u", "v", "w", "x",
               "y", "z">>

\* --mode: whether the flag is given, and its value
NoModeFlag == [given |-> FALSE, str |-> <<>>]
ModeFlag(str) == [given |-> TRUE, str |-> str]

\* values of --mode tried by the loop specification
ModeStrings == {NoModeFlag,
                ModeFlag(<<"b", "o", "g", "u", "s">>)}

\* values of --mode tried by the startup specification
AllModeStrings == ModeStrings \cup
    {ModeFlag(<<"n", "e", "r", "f">>),
     ModeFlag(<<"N", "e", "R", "F">>),
     ModeFlag(<<"s", "d", "f">>),
     ModeFlag(<<"S", "D", "F">>),
     ModeFlag(<<"i", "m", "a", "g", "e">>),
     ModeFlag(<<"I", "m", "a", "g", "e">>),
     ModeFlag(<<"v", "o", "l", "u", "m", "e">>),
     ModeFlag(<<"V", "O", "L", "U", "M", "E">>),
     ModeFlag(<<"n", "e", "r", "f", "s">>),
     ModeFlag(<<"n", "e", "r">>),
     ModeFlag(<<>>)}

\* a scene path: its file name and whether it is a directory
ScenePath(name, dir) == [name |-> name, dir |-> dir]

\* scene paths tried by the loop specification
ScenePaths == {ScenePath(<<"r", "o", "o", "m">>, TRUE)}

\* scene paths tried by the startup specification
AllScenePaths == ScenePaths \cup
    {ScenePath(<<"t", ".", "j", "s", "o", "n">>, FALSE),
     ScenePath(<<"t", ".", "J", "S", "O", "N">>, FALSE),
     ScenePath(<<"m", ".", "o", "b", "j">>, FALSE),
     ScenePath(<<"m", ".", "O", "b", "j">>, FALSE),
     ScenePath(<<"m", ".", "s", "t", "l">>, FALSE),
     ScenePath(<<"g", ".", "n", "v", "d", "b">>, FALSE),
     ScenePath(<<"p", ".", "p", "n", "g">>, FALSE),
     ScenePath(<<"m", ".", "o", "b", "j", ".", "p", "n", "g">>, FALSE),
     ScenePath(<<"o", "b", "j">>, FALSE),
     ScenePath(<<"d", ".", "o", "b", "j">>, TRUE)}

\* nobody holds the advisory lock of the lock file
NoLock == [who |-> "none", fd |-> -1]

VARIABLES
    \* command line and file system at startup
    mode_flag,              \* --mode: [given, str]
    scene_flag,             \* --scene given
    lock_flag,              \* --lock given
    change_flag,            \* --change given
    sceneExists,            \* the scene path exists
    scene_path,             \* get(scene_flag): [name, dir]
    lockOpenable,           \* open(lockName, O_RDWR|O_CREAT) can succeed
    \* the ngp process
    pc,                     \* position of main
    exitCode,               \* -1 while the process runs
    mode,                   \* ETestbedMode, "none" before it is resolved
    lock_fd,                \* local of the reload block, -1 out of scope
    openFds,                \* descriptors open in the ngp process
    m_training_step,
    m_loss_scalar,
    m_loss_graph,
    m_loss_graph_samples,
    lossLog,                \* the last GraphSize losses in the order the
                            \* engine produced them, oldest first
    loadedVer,              \* dataset version held by the testbed, -1 none
    reports,                \* progress lines written
    warnings,               \* "Cannot Aquire Lock" lines written
    trace,                  \* events of the current iteration
    sceneChecked,           \* scene_path.exists() was evaluated at startup
                            \* or since the current iteration began
    reloads,                \* load_training_data calls made by the loop
    \* shared with the mutator
    flock,                  \* holder of the exclusive advisory lock
    markerExists,           \* the change path exists
    diskVer,                \* dataset version on disk
    markersCreated,         \* times the mutator wrote the change marker
    \* the external mutator
    mpc,
    mut_fd

cfgVars == <<mode_flag, scene_flag, lock_flag, change_flag, sceneExists,
             scene_path, lockOpenable>>
mutVars == <<mpc, mut_fd>>
auxVars == <<sceneChecked, reloads, markersCreated>>
engineVars == <<m_training_step, m_loss_scalar, m_loss_graph,
                m_loss_graph_samples, lossLog>>
vars == <<mode_flag, scene_flag, lock_flag, change_flag, sceneExists,
          scene_path, lockOpenable, pc, exitCode, mode, lock_fd, openFds,
          m_training_step, m_loss_scalar, m_loss_graph,
          m_loss_graph_samples, lossLog, loadedVer, reports, warnings,
          trace, sceneChecked, reloads, flock, markerExists, diskVer,
          markersCreated, mpc, mut_fd>>

\* ------------------------------------------------------- pure functions

\* open(): the lowest descriptor that is not in use
LowestFd(fds) == CHOOSE fd \in FirstFd..(FirstFd + Cardinality(fds)) :
                    /\ fd \notin fds
                    /\ \A g \in FirstFd..(fd - 1) : g \in fds

\* tryGetLock with the result of flock() ignored
tryGetLock_IgnoresFlock(who, openOk, lk, fds) ==
    LET fd == IF openOk THEN LowestFd(fds) ELSE -1
    IN  IF fd >= 0
            THEN [fd |-> fd,
                  flock |-> IF lk = NoLock THEN [who |-> who, fd |-> fd]
                                           ELSE lk,
                  fds |-> fds \cup {fd}]
        ELSE [fd |-> -1, flock |-> lk, fds |-> fds]

\* int tryGetLock(lockName): the descriptor returned, the lock state and
\* the descriptor table left behind, for caller `who`
tryGetLock(who, openOk, lk, fds) ==
    LET fd == IF openOk THEN LowestFd(fds) ELSE -1
    IN  IF fd >= 0 /\ lk # NoLock
            THEN [fd |-> -1, flock |-> lk, fds |-> fds]
        ELSE IF fd >= 0
            THEN [fd |-> fd, flock |-> [who |-> who, fd |-> fd],
                  fds |-> fds \cup {fd}]
        ELSE [fd |-> -1, flock |-> lk, fds |-> fds]

\* close(fd) in process `who`: the advisory lock goes with its descriptor
CloseFd(who, fd, lk, fds) ==
    [flock |-> IF lk = [who |-> who, fd |-> fd] THEN NoLock ELSE lk,
     fds |-> fds \ {fd}]

\* void releaseLock(fd, lockName)
releaseLock(who, fd, lk, fds) ==
    IF fd < 0 THEN [flock |-> lk, fds |-> fds]
    ELSE CloseFd(who, fd, lk, fds)

\* process termination closes every descriptor of the process
ProcessExit(who, lk) == IF lk.who = who THEN NoLock ELSE lk

RECURSIVE SumSeq(_)
SumSeq(s) == IF s = <<>> THEN 0 ELSE Head(s) + SumSeq(Tail(s))

\* subvector_right - subvector_left: differences of neighbours in the graph
LossDiffs(g) == [i \in 1..(Len(g) - 1) |-> g[i + 1] - g[i]]

\* standardDevation without the mean subtracted: sqrt(sum(v^2) / n)
StdevBelowThreshold_NoMean(v) ==
    LET n == Len(v)
        q == SumSeq([i \in 1..n |-> v[i] * v[i]])
    IN  /\ n > 0
        /\ ThresholdDen * ThresholdDen * q < ThresholdNum * ThresholdNum * n

\* standardDevation(v) < 0.10f, on exact integers:
\* sqrt(sum((v - mean)^2) / n) < num/den  <=>
\* den^2 * (n * sum(v^2) - sum(v)^2) < num^2 * n^2; an empty v gives NaN
StdevBelowThreshold(v) ==
    LET n == Len(v)
        s == SumSeq(v)
        q == SumSeq([i \in 1..n |-> v[i] * v[i]])
    IN  /\ n > 0
        /\ ThresholdDen * ThresholdDen * (n * q - s * s)
             < ThresholdNum * ThresholdNum * n * n

\* SlowTraining with m_loss_graph_samples >= m_loss_graph.size()
SlowTraining_AtCapacity ==
    /\ lock_flag
    /\ scene_flag
    /\ m_loss_graph_samples >= Len(m_loss_graph)
    /\ StdevBelowThreshold(LossDiffs(m_loss_graph))

\* the condition of the reload block
SlowTraining ==
    /\ lock_flag
    /\ scene_flag
    /\ m_loss_graph_samples > Len(m_loss_graph)
    /\ StdevBelowThreshold(LossDiffs(m_loss_graph))

\* ------------------------------------------------------------------ Init
\* the state of a fresh process at position `start`, for the given command
\* lines
InitWith(modes, paths, start) ==
    /\ mode_flag \in modes
    /\ scene_flag \in BOOLEAN
    /\ lock_flag \in BOOLEAN
    /\ change_flag \in BOOLEAN
    /\ sceneExists \in BOOLEAN
    /\ scene_path \in paths
    /\ lockOpenable \in BOOLEAN
    /\ (~scene_flag => ~sceneExists)
    /\ (~lock_flag => lockOpenable)
    /\ pc = start
    /\ exitCode = -1
    /\ mode = "none"
    /\ lock_fd = -1
    /\ openFds = {}
    /\ m_training_step = 0
    /\ m_loss_scalar = 0
    /\ m_loss_graph = <<>>
    /\ m_loss_graph_samples = 0
    /\ lossLog = <<>>
    /\ loadedVer = -1
    /\ reports = 0
    /\ warnings = 0
    /\ trace = <<>>
    /\ sceneChecked = FALSE
    /\ reloads = 0
    /\ markersCreated = 0
    /\ flock = NoLock
    /\ markerExists = FALSE
    /\ diskVer = 0
    /\ mpc = "idle"
    /\ mut_fd = -1

Init == InitWith(ModeStrings, ScenePaths, "resolveMode")

\* ------------------------------------------------------------- helpers

\* return from main: the process ends and the kernel closes its descriptors
Terminate(code) ==
    /\ pc' = "exited"
    /\ exitCode' = code
    /\ lock_fd' = -1
    /\ openFds' = {}
    /\ flock' = ProcessExit("ngp", flock)

\* an exception leaves the try block: locals are destroyed, descriptors
\* stay open
Throw ==
    /\ pc' = "catch"
    /\ lock_fd' = -1

\* Testbed: the loss of a step is appended to the loss graph, which holds
\* at most GraphSize samples in the order they were recorded; the oldest
\* one is evicted on overflow
UpdateLossGraph(g, loss) ==
    IF Len(g) < GraphSize THEN Append(g, loss)
    ELSE Append(Tail(g), loss)

\* to_lower of one character
ToLowerChar(c) ==
    IF \E i \in 1..Len(UpperCase) : UpperCase[i] = c
      THEN LowerCase[CHOOSE i \in 1..Len(UpperCase) : UpperCase[i] = c]
      ELSE c

\* to_lower of a string
ToLower(str) == [i \in 1..Len(str) |-> ToLowerChar(str[i])]

\* equals_case_insensitive(a, b)
equals_case_insensitive(a, b) == ToLower(a) = ToLower(b)

\* position of the last "." of a name, 0 when there is none
LastDot(name) ==
    IF \E i \in 1..Len(name) : name[i] = "."
      THEN CHOOSE i \in 1..Len(name) :
             /\ name[i] = "."
             /\ \A j \in (i + 1)..Len(name) : name[j] # "."
      ELSE 0

\* path.extension(): what follows the last "." of the name, "" without one
Extension(path) ==
    IF LastDot(path.name) = 0 THEN <<>>
    ELSE SubSeq(path.name, LastDot(path.name) + 1, Len(path.name))

\* ModeOfScene without the stl alternative
ModeOfScene_NoStl(path) ==
    IF path.dir \/ equals_case_insensitive(Extension(path),
                                            <<"j", "s", "o", "n">>)
      THEN "nerf"
    ELSE IF equals_case_insensitive(Extension(path), <<"o", "b", "j">>)
      THEN "sdf"
    ELSE IF equals_case_insensitive(Extension(path), <<"n", "v", "d", "b">>)
      THEN "volume"
    ELSE "image"

\* lines 199-207: scene_path.is_directory() / extension -> ETestbedMode
ModeOfScene(path) ==
    IF path.dir \/ equals_case_insensitive(Extension(path),
                                            <<"j", "s", "o", "n">>)
      THEN "nerf"
    ELSE IF \/ equals_case_insensitive(Extension(path), <<"o", "b", "j">>)
            \/ equals_case_insensitive(Extension(path), <<"s", "t", "l">>)
      THEN "sdf"
    ELSE IF equals_case_insensitive(Extension(path), <<"n", "v", "d", "b">>)
      THEN "volume"
    ELSE "image"

\* lines 209-221: mode_str -> ETestbedMode, "none" when no name matches
ModeOfString(str) ==
    IF equals_case_insensitive(str, <<"n", "e", "r", "f">>) THEN "nerf"
    ELSE IF equals_case_insensitive(str, <<"s", "d", "f">>) THEN "sdf"
    ELSE IF equals_case_insensitive(str, <<"i", "m", "a", "g", "e">>)
      THEN "image"
    ELSE IF equals_case_insensitive(str, <<"v", "o", "l", "u", "m", "e">>)
      THEN "volume"
    ELSE "none"

\* ------------------------------------------------------- startup of main

\* ResolveMode with an unrecognized mode string falling through to Image
ResolveMode_AnyMode ==
    /\ pc = "resolveMode"
    /\ IF ~mode_flag.given
         THEN IF ~scene_flag \/ ~sceneExists
                THEN /\ Terminate(1)
                     /\ UNCHANGED mode
                ELSE /\ mode' = ModeOfScene(scene_path)
                     /\ pc' = "initCheck"
                     /\ UNCHANGED <<exitCode, lock_fd, openFds, flock>>
         ELSE /\ mode' = IF ModeOfString(mode_flag.str) = "none"
                           THEN "image"
                           ELSE ModeOfString(mode_flag.str)
              /\ pc' = "initCheck"
              /\ UNCHANGED <<exitCode, lock_fd, openFds, flock>>
    /\ sceneChecked' = (sceneChecked \/ (~mode_flag.given /\ scene_flag))
    /\ UNCHANGED <<cfgVars, reloads, markersCreated, engineVars, mutVars,
                   loadedVer, reports, warnings, trace, markerExists,
                   diskVer>>

\* lines 186-222
ResolveMode ==
    /\ pc = "resolveMode"
    /\ IF ~mode_flag.given
         THEN IF ~scene_flag \/ ~sceneExists
                THEN /\ Terminate(1)
                     /\ UNCHANGED mode
                ELSE /\ mode' = ModeOfScene(scene_path)
                     /\ pc' = "initCheck"
                     /\ UNCHANGED <<exitCode, lock_fd, openFds, flock>>
         ELSE IF ModeOfString(mode_flag.str) = "none"
                THEN /\ Terminate(1)
                     /\ UNCHANGED mode
                ELSE /\ mode' = ModeOfString(mode_flag.str)
                     /\ pc' = "initCheck"
                     /\ UNCHANGED <<exitCode, lock_fd, openFds, flock>>
    /\ sceneChecked' = (sceneChecked \/ (~mode_flag.given /\ scene_flag))
    /\ UNCHANGED <<cfgVars, reloads, markersCreated, engineVars, mutVars, loadedVer, reports,
                   warnings, trace, markerExists, diskVer>>

\* lines 226-232: the scene is checked, then load_training_data is entered
InitCheck ==
    /\ pc = "initCheck"
    /\ IF ~scene_flag
         THEN /\ pc' = "loadNetwork"
              /\ UNCHANGED <<exitCode, lock_fd, openFds, flock>>
         ELSE IF ~sceneExists
                THEN Terminate(1)
                ELSE /\ pc' = "initLoading"
                     /\ UNCHANGED <<exitCode, lock_fd, openFds, flock>>
    /\ sceneChecked' = (sceneChecked \/ scene_flag)
    /\ UNCHANGED <<cfgVars, reloads, markersCreated, engineVars, mutVars, mode, loadedVer, reports,
                   warnings, trace, markerExists, diskVer>>

\* line 232: testbed.load_training_data(scene_path.str()) returns or throws
InitLoad ==
    /\ pc = "initLoading"
    /\ \E ok \in BOOLEAN :
         IF ok THEN /\ loadedVer' = diskVer
                    /\ pc' = "loadNetwork"
                    /\ UNCHANGED lock_fd
               ELSE /\ Throw
                    /\ UNCHANGED loadedVer
    /\ UNCHANGED <<cfgVars, auxVars, engineVars, mutVars, mode, exitCode, openFds,
                   reports, warnings, trace, flock, markerExists, diskVer>>

\* lines 243-274: snapshot or network config; a missing file returns 1
LoadNetwork ==
    /\ pc = "loadNetwork"
    /\ \E found \in BOOLEAN :
         IF found THEN /\ pc' = "frame"
                       /\ UNCHANGED <<exitCode, lock_fd, openFds, flock>>
                  ELSE Terminate(1)
    /\ UNCHANGED <<cfgVars, auxVars, engineVars, mutVars, mode, loadedVer, reports,
                   warnings, trace, markerExists, diskVer>>

\* ----------------------------------------------------- the training loop

\* line 288: while (testbed.frame())
Frame ==
    /\ pc = "frame"
    /\ \/ /\ m_training_step < MaxSteps
          /\ \E loss \in Losses, cont \in BOOLEAN :
               /\ m_training_step' = m_training_step + 1
               /\ m_loss_scalar' = loss
               /\ m_loss_graph' = UpdateLossGraph(m_loss_graph, loss)
               /\ lossLog' = IF Len(lossLog) < GraphSize
                                THEN Append(lossLog, loss)
                                ELSE Append(Tail(lossLog), loss)
               /\ m_loss_graph_samples' = m_loss_graph_samples + 1
               /\ pc' = IF cont THEN "report" ELSE "stopped"
          /\ trace' = <<"step">>
          /\ UNCHANGED lock_fd
       \/ /\ m_training_step = MaxSteps
          /\ pc' = "stopped"
          /\ trace' = <<>>
          /\ UNCHANGED <<engineVars, lock_fd>>
       \/ /\ Throw
          /\ trace' = <<"engine_failure">>
          /\ UNCHANGED engineVars
    /\ sceneChecked' = FALSE
    /\ UNCHANGED <<cfgVars, reloads, markersCreated, mutVars, mode, exitCode, openFds, loadedVer,
                   reports, warnings, flock, markerExists, diskVer>>

\* Report with nothing written
Report_Silent ==
    /\ pc = "report"
    /\ trace' = Append(trace, "report")
    /\ pc' = "trigger"
    /\ UNCHANGED <<cfgVars, auxVars, engineVars, mutVars, mode, exitCode, lock_fd,
                   openFds, loadedVer, reports, warnings, flock, markerExists,
                   diskVer>>

\* lines 289-292: iteration and loss are written
Report ==
    /\ pc = "report"
    /\ reports' = reports + 1
    /\ trace' = Append(trace, "report")
    /\ pc' = "trigger"
    /\ UNCHANGED <<cfgVars, auxVars, engineVars, mutVars, mode, exitCode, lock_fd,
                   openFds, loadedVer, warnings, flock, markerExists,
                   diskVer>>

\* Trigger with the stability test left out of the condition
Trigger_IgnoresStability ==
    /\ pc = "trigger"
    /\ pc' = IF lock_flag /\ scene_flag THEN "tryLock" ELSE "frame"
    /\ trace' = Append(trace, "trigger")
    /\ UNCHANGED <<cfgVars, auxVars, engineVars, mutVars, mode, exitCode,
                   lock_fd, openFds, loadedVer, reports, warnings, flock,
                   markerExists, diskVer>>

\* Trigger that gives up once an acquisition has failed
Trigger_NoRetry ==
    /\ pc = "trigger"
    /\ pc' = IF SlowTraining /\ warnings = 0 THEN "tryLock" ELSE "frame"
    /\ trace' = Append(trace, "trigger")
    /\ UNCHANGED <<cfgVars, auxVars, engineVars, mutVars, mode, exitCode,
                   lock_fd, openFds, loadedVer, reports, warnings, flock,
                   markerExists, diskVer>>

\* lines 295-301: the stdev of the loss differences gates the reload block
Trigger ==
    /\ pc = "trigger"
    /\ pc' = IF SlowTraining THEN "tryLock" ELSE "frame"
    /\ trace' = Append(trace, "trigger")
    /\ UNCHANGED <<cfgVars, auxVars, engineVars, mutVars, mode, exitCode, lock_fd,
                   openFds, loadedVer, reports, warnings, flock,
                   markerExists, diskVer>>

\* lines 306-307 and 325: the effect of the call and the branch taken
TryLockStep(r, acquired) ==
    /\ lock_fd' = r.fd
    /\ flock' = r.flock
    /\ openFds' = r.fds
    /\ pc' = IF acquired THEN "checkMarker" ELSE "warn"
    /\ trace' = Append(trace,
                  IF r.fd > -1 THEN "acquire" ELSE "acquire_failed")
    /\ UNCHANGED <<cfgVars, auxVars, engineVars, mutVars, mode, exitCode, loadedVer,
                   reports, warnings, markerExists, diskVer>>

\* TryLock with the test written lock_fd >= -1
TryLock_OffByOne ==
    /\ pc = "tryLock"
    /\ LET r == tryGetLock("ngp", lockOpenable, flock, openFds)
       IN  TryLockStep(r, r.fd >= -1)

\* TryLock with flock called without LOCK_NB: the call waits for the lock
TryLock_Blocking ==
    /\ pc = "tryLock"
    /\ (lockOpenable => flock = NoLock)
    /\ LET r == tryGetLock("ngp", lockOpenable, flock, openFds)
       IN  TryLockStep(r, r.fd > -1)

\* lines 306-307: int lock_fd = tryGetLock(cstr); if (lock_fd > -1)
TryLock ==
    /\ pc = "tryLock"
    /\ LET r == tryGetLock("ngp", lockOpenable, flock, openFds)
       IN  TryLockStep(r, r.fd > -1)

\* CheckMarker with the test of change_path.exists() left out
CheckMarker_Unconditional ==
    /\ pc = "checkMarker"
    /\ LET exists == change_flag /\ markerExists
       IN  /\ pc' = "removeMarker"
           /\ trace' = Append(trace, IF exists THEN "marker_present"
                                                ELSE "marker_absent")
    /\ UNCHANGED <<cfgVars, auxVars, engineVars, mutVars, mode, exitCode, lock_fd,
                   openFds, loadedVer, reports, warnings, flock,
                   markerExists, diskVer>>

\* lines 313-315: if (change_path.exists())
CheckMarker ==
    /\ pc = "checkMarker"
    /\ LET exists == change_flag /\ markerExists
       IN  /\ pc' = IF exists THEN "removeMarker" ELSE "release"
           /\ trace' = Append(trace, IF exists THEN "marker_present"
                                                ELSE "marker_absent")
    /\ UNCHANGED <<cfgVars, auxVars, engineVars, mutVars, mode, exitCode, lock_fd,
                   openFds, loadedVer, reports, warnings, flock,
                   markerExists, diskVer>>

\* RemoveMarker with the reload left out
RemoveMarker_NoReload ==
    /\ pc = "removeMarker"
    /\ markerExists' = FALSE
    /\ trace' = Append(trace, "delete")
    /\ pc' = "release"
    /\ UNCHANGED <<cfgVars, auxVars, engineVars, mutVars, mode, exitCode, lock_fd,
                   openFds, loadedVer, reports, warnings, flock, diskVer>>

\* RemoveMarker whose remove_file leaves the marker in place
RemoveMarker_KeepsMarker ==
    /\ pc = "removeMarker"
    /\ trace' = Append(trace, "delete")
    /\ pc' = "reload"
    /\ UNCHANGED <<cfgVars, auxVars, engineVars, mutVars, mode, exitCode,
                   lock_fd, openFds, loadedVer, reports, warnings, flock,
                   markerExists, diskVer>>

\* line 317: change_path.remove_file()
RemoveMarker ==
    /\ pc = "removeMarker"
    /\ markerExists' = FALSE
    /\ trace' = Append(trace, "delete")
    /\ pc' = "reload"
    /\ UNCHANGED <<cfgVars, auxVars, engineVars, mutVars, mode, exitCode, lock_fd,
                   openFds, loadedVer, reports, warnings, flock, diskVer>>

\* ReloadCall with releaseLock moved in front of the reload
ReloadCall_Unlocked ==
    /\ pc = "reload"
    /\ LET r == releaseLock("ngp", lock_fd, flock, openFds)
       IN  /\ flock' = r.flock
           /\ openFds' = r.fds
    /\ trace' = Append(trace, "reload_call")
    /\ pc' = "reloading"
    /\ reloads' = reloads + 1
    /\ UNCHANGED <<cfgVars, sceneChecked, markersCreated, engineVars, mutVars, mode, exitCode, lock_fd,
                   loadedVer, reports, warnings, markerExists, diskVer>>

\* line 318: testbed.load_training_data(scene_string) is entered
ReloadCall ==
    /\ pc = "reload"
    /\ trace' = Append(trace, "reload_call")
    /\ pc' = "reloading"
    /\ reloads' = reloads + 1
    /\ UNCHANGED <<cfgVars, sceneChecked, markersCreated, engineVars, mutVars, mode, exitCode, lock_fd,
                   openFds, loadedVer, reports, warnings, flock,
                   markerExists, diskVer>>

\* line 318: load_training_data returns, or throws to the catch of line 332
ReloadReturn ==
    /\ pc = "reloading"
    /\ \E ok \in BOOLEAN :
         IF ok /\ sceneExists
           THEN /\ loadedVer' = diskVer
                /\ trace' = Append(trace, "reload_return")
                /\ pc' = "release"
                /\ UNCHANGED lock_fd
           ELSE /\ Throw
                /\ trace' = Append(trace, "reload_failed")
                /\ UNCHANGED loadedVer
    /\ UNCHANGED <<cfgVars, auxVars, engineVars, mutVars, mode, exitCode, openFds,
                   reports, warnings, flock, markerExists, diskVer>>

\* line 324: releaseLock(lock_fd, cstr), then the block ends
Release ==
    /\ pc = "release"
    /\ LET r == releaseLock("ngp", lock_fd, flock, openFds)
       IN  /\ flock' = r.flock
           /\ openFds' = r.fds
    /\ lock_fd' = -1
    /\ trace' = Append(trace, "release")
    /\ pc' = "frame"
    /\ UNCHANGED <<cfgVars, auxVars, engineVars, mutVars, mode, exitCode, loadedVer,
                   reports, warnings, markerExists, diskVer>>

\* Warn that also removes the change marker
Warn_DeletesMarker ==
    /\ pc = "warn"
    /\ warnings' = warnings + 1
    /\ lock_fd' = -1
    /\ markerExists' = FALSE
    /\ trace' = Append(trace, "warning")
    /\ pc' = "frame"
    /\ UNCHANGED <<cfgVars, auxVars, engineVars, mutVars, mode, exitCode,
                   openFds, loadedVer, reports, flock, diskVer>>

\* lines 325-329: tlog::warning() << "Cannot Aquire Lock at "
Warn ==
    /\ pc = "warn"
    /\ warnings' = warnings + 1
    /\ lock_fd' = -1
    /\ trace' = Append(trace, "warning")
    /\ pc' = "frame"
    /\ UNCHANGED <<cfgVars, auxVars, engineVars, mutVars, mode, exitCode, openFds,
                   loadedVer, reports, flock, markerExists, diskVer>>

\* line 336: the loop has ended and main returns 0
Stop ==
    /\ pc = "stopped"
    /\ Terminate(0)
    /\ UNCHANGED <<cfgVars, auxVars, engineVars, mutVars, mode, loadedVer, reports,
                   warnings, trace, markerExists, diskVer>>

\* lines 332-334: catch (const exception& e) ... return 1
Catch ==
    /\ pc = "catch"
    /\ Terminate(1)
    /\ UNCHANGED <<cfgVars, auxVars, engineVars, mutVars, mode, loadedVer, reports,
                   warnings, trace, markerExists, diskVer>>

\* ------------------------------------------------- the external mutator
\* It cooperates: it takes the lock of the lock path with the same
\* non-blocking flock, writes the dataset and the change marker only while
\* it holds the lock, and may hold the lock for as long as it likes.

MutTryLock ==
    /\ mpc = "idle"
    /\ LET r == tryGetLock("mutator", TRUE, flock, {})
       IN  /\ mut_fd' = r.fd
           /\ flock' = r.flock
           /\ mpc' = IF r.fd > -1 THEN "locked" ELSE "idle"
    /\ UNCHANGED <<cfgVars, auxVars, engineVars, pc, exitCode, mode, lock_fd, openFds,
                   loadedVer, reports, warnings, trace, markerExists,
                   diskVer>>

MutBeginWrite ==
    /\ mpc = "locked"
    /\ diskVer < MaxWrites
    /\ mpc' = "writing"
    /\ UNCHANGED <<cfgVars, auxVars, engineVars, pc, exitCode, mode, lock_fd, openFds,
                   loadedVer, reports, warnings, trace, flock, markerExists,
                   diskVer, mut_fd>>

MutEndWrite ==
    /\ mpc = "writing"
    /\ diskVer' = diskVer + 1
    /\ mpc' = "marking"
    /\ UNCHANGED <<cfgVars, auxVars, engineVars, pc, exitCode, mode, lock_fd, openFds,
                   loadedVer, reports, warnings, trace, flock, markerExists,
                   mut_fd>>

MutMark ==
    /\ mpc = "marking"
    /\ markerExists' = TRUE
    /\ mpc' = "locked"
    /\ markersCreated' = markersCreated + 1
    /\ UNCHANGED <<cfgVars, sceneChecked, reloads, engineVars, pc, exitCode, mode, lock_fd, openFds,
                   loadedVer, reports, warnings, trace, flock, diskVer,
                   mut_fd>>

MutRelease ==
    /\ mpc = "locked"
    /\ LET r == releaseLock("mutator", mut_fd, flock, {mut_fd})
       IN  flock' = r.flock
    /\ mut_fd' = -1
    /\ mpc' = "idle"
    /\ UNCHANGED <<cfgVars, auxVars, engineVars, pc, exitCode, mode, lock_fd, openFds,
                   loadedVer, reports, warnings, trace, markerExists,
                   diskVer>>

\* ---------------------------------------------------------- specification
LoopNext ==
    \/ ResolveMode
    \/ InitCheck
    \/ InitLoad
    \/ LoadNetwork
    \/ Frame
    \/ Report
    \/ Trigger
    \/ TryLock
    \/ CheckMarker
    \/ RemoveMarker
    \/ ReloadCall
    \/ ReloadReturn
    \/ Release
    \/ Warn
    \/ Stop
    \/ Catch

MutNext ==
    \/ MutTryLock
    \/ MutBeginWrite
    \/ MutEndWrite
    \/ MutMark
    \/ MutRelease

Next == LoopNext \/ MutNext

Spec == Init /\ [][Next]_vars

\* main is a running thread: it always takes its next step
LiveSpec == Spec /\ WF_vars(LoopNext)

\* the startup of main alone, over more command lines
StartupInit == InitWith(AllModeStrings, AllScenePaths, "resolveMode")

StartupNext ==
    \/ ResolveMode
    \/ InitCheck
    \/ InitLoad
    \/ LoadNetwork
    \/ Catch

StartupSpec == StartupInit /\ [][StartupNext]_vars

\* ------------------------------------- the lock functions on their own
\* A process that calls tryGetLock and releaseLock in any order and opens
\* other files in between; lock_fd is the variable it keeps the handle in.

ApiUnchanged ==
    UNCHANGED <<cfgVars, auxVars, engineVars, mutVars, pc, exitCode, mode,
                loadedVer, reports, warnings, markerExists, diskVer>>

\* lock_fd = tryGetLock(lockName)
ApiTryGetLock ==
    /\ pc = "api"
    /\ Len(trace) < MaxCalls
    /\ LET r == tryGetLock("ngp", lockOpenable, flock, openFds)
       IN  /\ lock_fd' = r.fd
           /\ flock' = r.flock
           /\ openFds' = r.fds
           /\ trace' = Append(trace,
                         IF r.fd > -1 THEN "acquire" ELSE "acquire_failed")
    /\ ApiUnchanged

\* releaseLock(lock_fd, lockName); the caller keeps the value of lock_fd
ApiReleaseLock ==
    /\ pc = "api"
    /\ Len(trace) < MaxCalls
    /\ LET r == releaseLock("ngp", lock_fd, flock, openFds)
       IN  /\ flock' = r.flock
           /\ openFds' = r.fds
    /\ trace' = Append(trace, "release")
    /\ UNCHANGED lock_fd
    /\ ApiUnchanged

\* the process opens some other file
ApiOpenOther ==
    /\ pc = "api"
    /\ Len(trace) < MaxCalls
    /\ openFds' = openFds \cup {LowestFd(openFds)}
    /\ trace' = Append(trace, "open")
    /\ UNCHANGED <<lock_fd, flock>>
    /\ ApiUnchanged

ApiInit == InitWith({NoModeFlag}, ScenePaths, "api")

ApiNext ==
    \/ ApiTryGetLock
    \/ ApiReleaseLock
    \/ ApiOpenOther

LockSpec == ApiInit /\ [][ApiNext]_vars

TypeOK ==
    /\ pc \in {"resolveMode", "initCheck", "initLoading", "loadNetwork",
               "frame", "report", "trigger", "tryLock", "checkMarker",
               "removeMarker", "reload", "reloading", "release", "warn",
               "stopped", "catch", "exited"}
    /\ mpc \in {"idle", "locked", "writing", "marking"}
    /\ lock_fd \in -1..(FirstFd + 1)
    /\ mut_fd \in -1..(FirstFd + 1)
    /\ m_training_step \in 0..MaxSteps
    /\ diskVer \in 0..MaxWrites

\* ------------------------------------------------------------ properties

\* event e happened in the current iteration
Has(e) == \E i \in 1..Len(trace) : trace[i] = e

\* the advisory lock is held through a descriptor of the ngp process
LoopHoldsLock == flock.who = "ngp"

\* the events of an iteration up to the call of the reload
ReloadPrefix == <<"step", "report", "trigger", "acquire", "marker_present",
                  "delete", "reload_call">>

\* C1: the loop and the mutator never both hold a handle returned by a
\* successful tryGetLock on the lock path, and a tryGetLock made while the
\* other party holds the lock returns -1.
C1_MutualExclusion ==
    /\ [](~(lock_fd > -1 /\ mut_fd > -1))
    /\ [][/\ (pc = "tryLock" /\ pc' # "tryLock" /\ mut_fd > -1)
               => lock_fd' = -1
          /\ (mpc = "idle" /\ LoopHoldsLock) => mut_fd' = -1]_vars

\* the loop asked for the lock while the mutator held it and got -1
C1_Witness ==
    /\ pc = "warn"
    /\ lockOpenable
    /\ lock_fd = -1
    /\ mut_fd > -1

C3_ReloadFailureContinues ==
    Has("reload_failed") =>
        /\ pc \notin {"catch", "exited"}
        /\ exitCode = -1
        /\ ~LoopHoldsLock

\* C4: the loop is never inside load_training_data while the mutator is
\* writing the dataset.
C4_NoLoadDuringWrite ==
    ~(pc \in {"initLoading", "reloading"} /\ mpc = "writing")

\* C5: when the marker was found absent under the held lock, the iteration
\* deletes nothing, reloads nothing, warns nothing, and has released the
\* lock when it ends.
C5_NoReloadWithoutMarker ==
    Has("marker_absent") =>
        /\ ~Has("delete")
        /\ ~Has("reload_call")
        /\ ~Has("warning")
        /\ pc \in {"release", "frame"}
        /\ pc = "frame" => (Has("release") /\ ~LoopHoldsLock /\ openFds = {})

\* the lock was taken, the marker was absent, the iteration is over
C5_Witness ==
    /\ pc = "frame"
    /\ Has("acquire")
    /\ Has("marker_absent")
    /\ Has("release")
    /\ flock = NoLock

\* C6: when tryGetLock fails, the iteration writes one warning, leaves the
\* marker alone, calls no reload, holds no handle and goes on to the next
\* engine step.
C6_LockUnavailable ==
    /\ [](Has("acquire_failed") =>
            /\ ~Has("delete")
            /\ ~Has("reload_call")
            /\ lock_fd = -1
            /\ ~LoopHoldsLock
            /\ openFds = {}
            /\ pc \in {"warn", "frame"}
            /\ pc = "frame" <=> Has("warning"))
    /\ [][(pc \in {"tryLock", "warn"} /\ pc' \in {"warn", "frame"}
              /\ pc' # pc) =>
            /\ markerExists' = markerExists
            /\ warnings' = IF pc = "warn" THEN warnings + 1 ELSE warnings]_vars

\* the mutator holds the lock, the marker is there, the loop has warned
C6_Witness ==
    /\ pc = "frame"
    /\ Has("acquire_failed")
    /\ Has("warning")
    /\ flock.who = "mutator"
    /\ markerExists

\* C7: immediately before each engine step and when the loop has stopped,
\* the ngp process holds no lock and no open lock descriptor.
C7_NoLockAcrossIterations ==
    pc \in {"frame", "stopped", "catch"} =>
        (~LoopHoldsLock /\ openFds = {})

\* C8: once the loop has deleted the marker, the lock is not free again
\* before a reload has been called in that iteration.
C8_DeleteThenReload ==
    Has("delete") =>
        \/ pc = "reload" /\ LoopHoldsLock
        \/ Has("reload_call")

\* the marker was deleted, a reload was attempted, the lock is free again
C8_Witness ==
    /\ Has("delete")
    /\ Has("reload_call")
    /\ flock = NoLock
    /\ ~markerExists

\* C9 as stated: every engine step, the one whose continue signal is false
\* included, has been reported and followed by the reload trigger when the
\* loop is stopped.
C9_EveryStepReported ==
    pc = "stopped" =>
        /\ reports = m_training_step
        /\ (Has("step") => (Has("report") /\ Has("trigger")))

\* C9 amended: the continue signal is checked right after the engine step;
\* a step that signals continue is reported and followed by the reload
\* trigger before the next step, and the step that signals stop is followed
\* by neither.
C9_ContinueCheckedFirst ==
    /\ pc = "frame" =>
         /\ reports = m_training_step
         /\ trace # <<>> =>
              (Len(trace) >= 3
                 /\ SubSeq(trace, 1, 3) = <<"step", "report", "trigger">>)
    /\ pc = "stopped" =>
         /\ trace \in {<<>>, <<"step">>}
         /\ reports = m_training_step - Len(trace)

\* the loop stopped on a step that was not reported, after reported ones
C9_Witness ==
    /\ pc = "stopped"
    /\ trace = <<"step">>
    /\ reports > 0
    /\ reports = m_training_step - 1

\* the part of an iteration after the engine step
InIteration ==
    pc \in {"report", "trigger", "tryLock", "checkMarker", "removeMarker",
            "reload", "reloading", "release", "warn"}

\* C10: an iteration never waits for the lock: whoever holds the lock and
\* for however long, every iteration reaches the next engine step, unless
\* its reload failed.
C10_NeverBlocks ==
    InIteration ~> (pc = "frame" \/ Has("reload_failed"))

\* an iteration finished while the mutator kept the lock
C10_Witness ==
    /\ pc = "frame"
    /\ Has("acquire_failed")
    /\ mut_fd > -1
    /\ mpc = "writing"

\* tryGetLock was called in the current iteration, or is about to be
Attempted == pc = "tryLock" \/ Has("acquire") \/ Has("acquire_failed")

\* how often event e happened in the current iteration
Count(e) == Cardinality({i \in 1..Len(trace) : trace[i] = e})

\* first differences of a window given oldest first
FirstDifferences(w) == [i \in 1..(Len(w) - 1) |-> w[i + 1] - w[i]]

\* population standard deviation of d below the threshold: with s the sum
\* of d and n its length, sum((n * d[i] - s)^2) = n^3 * variance
PopulationStdevBelow(d) ==
    LET n == Len(d)
        s == SumSeq(d)
        dev == SumSeq([i \in 1..n |-> (n * d[i] - s) * (n * d[i] - s)])
    IN  /\ n > 0
        /\ ThresholdDen * ThresholdDen * dev
             < ThresholdNum * ThresholdNum * n * n * n

\* the verdict as the claim defines it, on the losses in iteration order
StableVerdict ==
    /\ m_training_step > GraphSize
    /\ PopulationStdevBelow(FirstDifferences(lossLog))

\* C11: the reload block is entered iff coordination is enabled, more
\* samples than the window capacity have been recorded, and the population
\* standard deviation of the first differences of the window, oldest to
\* newest, is below the threshold.
C11_StabilityVerdict ==
    Has("trigger") =>
        (Attempted <=> (lock_flag /\ scene_flag /\ StableVerdict))

\* a window that decays by a constant step was judged stable
C11_Witness ==
    /\ Has("trigger")
    /\ Attempted
    /\ Len(lossLog) = GraphSize
    /\ \A i \in 1..(Len(lossLog) - 1) : lossLog[i + 1] = lossLog[i] - 1

\* C12: while fewer than 2 samples are in the history or no more samples
\* than the window capacity have been recorded, no tryGetLock, marker
\* deletion or reload happens; once the window is all equal and more samples
\* than the capacity have been recorded, the verdict is stable.
C12_WarmUp ==
    /\ (m_training_step <= GraphSize \/ Len(lossLog) < 2) =>
         /\ ~Attempted
         /\ ~Has("delete")
         /\ ~Has("reload_call")
         /\ reloads = 0
         /\ warnings = 0
         /\ ~LoopHoldsLock
         /\ openFds = {}
    /\ (/\ Has("trigger")
        /\ lock_flag /\ scene_flag
        /\ m_training_step > GraphSize
        /\ \A i \in 1..Len(lossLog) : lossLog[i] = lossLog[1]) => Attempted

\* the first iteration after the warm-up, with all losses equal
C12_Witness ==
    /\ m_training_step = GraphSize + 1
    /\ \A i \in 1..Len(lossLog) : lossLog[i] = lossLog[1]
    /\ Has("trigger")
    /\ Attempted

\* C17: tryGetLock is called only when coordination is enabled and the
\* monitor is stable, the marker is examined only under the held lock, and
\* an iteration makes at most one tryGetLock and at most one reload call.
C17_ShortCircuit ==
    /\ Attempted => (lock_flag /\ scene_flag /\ StableVerdict)
    /\ (pc = "checkMarker" \/ Has("marker_present") \/ Has("marker_absent"))
         => Has("acquire")
    /\ pc \in {"checkMarker", "removeMarker"} => LoopHoldsLock
    /\ Count("acquire") + Count("acquire_failed") <= 1
    /\ Count("marker_present") + Count("marker_absent") <= 1
    /\ Count("reload_call") <= 1

\* an iteration went through every condition and reloaded
C17_Witness ==
    /\ pc = "frame"
    /\ Count("acquire") = 1
    /\ Count("marker_present") = 1
    /\ Count("reload_call") = 1
    /\ Has("release")

\* the names of the four modes
ModeNames == [nerf |-> <<"n", "e", "r", "f">>,
              sdf |-> <<"s", "d", "f">>,
              image |-> <<"i", "m", "a", "g", "e">>,
              volume |-> <<"v", "o", "l", "u", "m", "e">>]

\* the upper case form of a lower case letter
UpperOf(c) == UpperCase[CHOOSE i \in 1..Len(LowerCase) : LowerCase[i] = c]

\* str spells the lower case word `name` in some mix of cases
SpellsName(str, name) ==
    /\ Len(str) = Len(name)
    /\ \A i \in 1..Len(name) : str[i] \in {name[i], UpperOf(name[i])}

\* the modes whose name the explicit mode string matches
ModesNamed(str) == {m \in DOMAIN ModeNames : SpellsName(str, ModeNames[m])}

\* the extension of the scene path spells `ext` in some mix of cases
HasExtension(path, ext) ==
    \E k \in 1..Len(path.name) :
        /\ path.name[k] = "."
        /\ \A j \in (k + 1)..Len(path.name) : path.name[j] # "."
        /\ SpellsName(SubSeq(path.name, k + 1, Len(path.name)), ext)

\* the mode the claim assigns to an existing scene path
ModeOfPath(path) ==
    IF path.dir \/ HasExtension(path, <<"j", "s", "o", "n">>) THEN "nerf"
    ELSE IF \/ HasExtension(path, <<"o", "b", "j">>)
            \/ HasExtension(path, <<"s", "t", "l">>) THEN "sdf"
    ELSE IF HasExtension(path, <<"n", "v", "d", "b">>) THEN "volume"
    ELSE "image"

\* the mode resolution fails: bad mode string, nothing given, missing scene
ResolutionFails ==
    IF mode_flag.given THEN ModesNamed(mode_flag.str) = {}
    ELSE ~scene_flag \/ ~sceneExists

\* C14: once the mode is resolved, an explicit mode string has given the
\* mode whose name it matches without regard to case, whatever the path;
\* without a mode string a directory or json path gives nerf, obj or stl
\* sdf, nvdb volume and anything else image; exactly one mode results
\* unless the resolution fails.
C14_ModeResolution ==
    pc # "resolveMode" =>
        IF ResolutionFails
          THEN mode = "none" /\ pc = "exited" /\ exitCode = 1
        ELSE IF mode_flag.given
          THEN ModesNamed(mode_flag.str) = {mode}
        ELSE mode = ModeOfPath(scene_path)

\* a mode string in capitals chose volume although the path is a mesh
C14_Witness ==
    /\ pc = "initCheck"
    /\ mode_flag.given
    /\ mode_flag.str = <<"V", "O", "L", "U", "M", "E">>
    /\ mode = "volume"
    /\ scene_flag /\ sceneExists
    /\ ModeOfPath(scene_path) = "sdf"

\* a wrong mode string, neither mode nor scene, or a scene that is missing
ConfigError ==
    \/ mode_flag.given /\ ModesNamed(mode_flag.str) = {}
    \/ ~mode_flag.given /\ ~scene_flag
    \/ scene_flag /\ ~sceneExists

\* C15: with a configuration error the process never steps the engine,
\* takes the lock, deletes the marker or loads the dataset, and it ends
\* with a non-zero status.
C15_ConfigErrorFatal ==
    ConfigError =>
        /\ pc \in {"resolveMode", "initCheck", "exited"}
        /\ m_training_step = 0
        /\ trace = <<>>
        /\ reloads = 0
        /\ loadedVer = -1
        /\ ~LoopHoldsLock
        /\ openFds = {}
        /\ pc = "exited" => exitCode = 1

\* an unrecognized mode string ended the process before the loop
C15_Witness ==
    /\ mode_flag.given
    /\ ModesNamed(mode_flag.str) = {}
    /\ scene_flag /\ sceneExists
    /\ lock_flag /\ change_flag
    /\ pc = "exited"
    /\ exitCode = 1

\* C16: the loop is never inside load_training_data without the scene
\* path's existence having been checked at startup or in that iteration.
C16_SceneCheckedBeforeLoad ==
    pc \in {"initLoading", "reloading"} => sceneChecked

\* C18: an iteration that finds coordination enabled and the monitor stable
\* calls tryGetLock again after earlier failures; such a retry gets the lock
\* when the lock is free, and then ends in a reload unless the marker is
\* absent.
C18_RetryNextIteration ==
    /\ []((/\ warnings > 0
           /\ Has("trigger")
           /\ lock_flag /\ scene_flag
           /\ StableVerdict) => Attempted)
    /\ [][(/\ pc = "tryLock"
           /\ pc' # pc
           /\ lockOpenable
           /\ flock = NoLock) => pc' = "checkMarker"]_vars
    /\ (pc = "tryLock" /\ warnings > 0) ~>
         (Has("reload_call") \/ Has("acquire_failed") \/ Has("marker_absent"))

\* a reload happened in an iteration after a failed acquisition
C18_Witness ==
    /\ warnings > 0
    /\ Has("acquire")
    /\ Has("reload_call")

\* C19: a step of the loop changes the marker only by deleting it, while it
\* holds the lock and after it saw the marker in the same iteration.
C19_MarkerOnlyDeletedUnderLock ==
    [][pc' # pc =>
         \/ markerExists' = markerExists
         \/ /\ pc = "removeMarker"
            /\ markerExists /\ ~markerExists'
            /\ LoopHoldsLock
            /\ Has("marker_present")]_vars

\* the loop has deleted a marker the mutator wrote
C19_Witness ==
    /\ Has("marker_present")
    /\ Has("delete")
    /\ ~markerExists
    /\ markersCreated > 0

ReleasedAlready ==
    \E i \in 1..Len(trace) :
        /\ trace[i] = "release"
        /\ \A j \in (i + 1)..Len(trace) : trace[j] # "acquire"

\* C13: releaseLock on a negative handle, or on a handle that was released
\* before, changes nothing: no descriptor of the process is closed and no
\* lock is dropped.
C13_ReleaseIdempotent ==
    [][(/\ pc = "api"
        /\ trace' = Append(trace, "release")
        /\ (lock_fd < 0 \/ ReleasedAlready))
         => (openFds' = openFds /\ flock' = flock)]_vars

====
